---- MODULE Spec2Model ----
(***************************************************************************)
(* Model of the website status checker: backend/monitor.py (Website,      *)
(* StatusManager) and the callers in backend/main.py (the REST handlers   *)
(* that mutate the registry and the websocket endpoint that subscribes a  *)
(* listener).                                                             *)
(*                                                                        *)
(* The program runs on one asyncio event loop, so every action below is   *)
(* the code between two suspension points (await) of one coroutine.       *)
(* Website objects live in `heap` and are referred to by index, because   *)
(* a probe keeps a reference to its Website object also after the url was *)
(* removed from (or re-added to) the registry.                            *)
(***************************************************************************)
EXTENDS Integers, Sequences, FiniteSets, TLC

VARIABLES
    heap,        \* Website objects ever constructed, by reference
    websites,    \* StatusManager.websites: the dict, in insertion order
    listeners,   \* StatusManager.listeners: the list of callbacks
    tasks,       \* check_website coroutines handed to asyncio.gather
    sched,       \* monitor_loop: its position and the tick it is in
    notif,       \* notify_listeners invocations: the scheduler's, the API's
    ws,          \* websocket_endpoint handlers, one per connection
    conn,        \* whether the connection of a websocket is still up
    nAdds,       \* add_website calls that returned True
    nRemoves,    \* remove_website calls that returned True
    apiNotifies, \* notify_listeners invocations started by an API handler
    schedNotifies, \* notify_listeners invocations started by monitor_loop
    busyTicks    \* ticks that started with at least one registered site

vars == <<heap, websites, listeners, tasks, sched, notif, ws, conn,
          nAdds, nRemoves, apiNotifies, schedNotifies, busyTicks>>

----------------------------------------------------------------------------
(* Bounds of the model *)

\* external events of a run: websites added, websocket connections accepted
\* and expiries of the scheduler's timer (ticks)
MaxEvents == 4

Urls == {"a", "b"}
Listeners == {"l1", "l2"}
ApiSlots == {"api"}
Codes == {200, 400}
Durations == {50}

(* Program constants *)

MaxResponseTimes == 100
MaxStatusHistory == 50
ExposedHistory == 10
OkLow == 200
OkHigh == 400

None == 0
NoListener == "none"
Notifiers == {"sched"} \cup ApiSlots

----------------------------------------------------------------------------
(* Sequence helpers: Python list and dict operations *)

Range(s) == {s[i] : i \in 1..Len(s)}

\* (mutant) list.pop()
PopLast(s) == SubSeq(s, 1, Len(s) - 1)

\* list.pop(0)
PopFront(s) == SubSeq(s, 2, Len(s))

\* (mutant) s[:k]
FirstK(s, k) == IF Len(s) <= k THEN s ELSE SubSeq(s, 1, k)

\* s[-k:]
LastK(s, k) == IF Len(s) <= k THEN s ELSE SubSeq(s, Len(s) - k + 1, Len(s))

\* list.remove(x): drops the first occurrence
RECURSIVE ListRemove(_, _)
ListRemove(s, x) ==
    IF s = <<>> THEN <<>>
    ELSE IF Head(s) = x THEN Tail(s)
    ELSE <<Head(s)>> \o ListRemove(Tail(s), x)

RECURSIVE SumSeq(_)
SumSeq(s) == IF s = <<>> THEN 0 ELSE Head(s) + SumSeq(Tail(s))

\* url in self.websites
HasUrl(d, url) == \E i \in 1..Len(d) : d[i].url = url

\* self.websites[url]
Lookup(d, url) == (CHOOSE i \in 1..Len(d) : d[i].url = url)

\* self.websites[url] = ref: a new key goes last, an existing key keeps its place
DictSet(d, url, ref) ==
    IF HasUrl(d, url)
    THEN [d EXCEPT ![Lookup(d, url)] = [url |-> url, ref |-> ref]]
    ELSE Append(d, [url |-> url, ref |-> ref])

\* del self.websites[url]
DictDel(d, url) ==
    [i \in 1..(Len(d) - 1) |-> IF i < Lookup(d, url) THEN d[i] ELSE d[i + 1]]

----------------------------------------------------------------------------
(* Website *)

StatusUnknown == [kind |-> "UNKNOWN", code |-> 0]
StatusDown == [kind |-> "DOWN", code |-> 0]
StatusError == [kind |-> "ERROR", code |-> 0]
\* f"{response.status_code} OK"
StatusOk(code) == [kind |-> "OK", code |-> code]
\* f"HTTP {response.status_code}"
StatusHttp(code) == [kind |-> "HTTP", code |-> code]

\* Website.__init__
NewWebsite(url, now) ==
    [url |-> url, status |-> StatusUnknown, response_time |-> 0,
     last_checked |-> None, is_up |-> FALSE,
     total_checks |-> 0, successful_checks |-> 0,
     status_history |-> <<>>, response_times |-> <<>>,
     ssl_expiry_date |-> None, created_at |-> now]

\* (mutant) add_check_result counting every answered probe as a success
AddCheckResultAnswered(w, is_success, response_time) ==
    LET counted == [w EXCEPT !.total_checks = @ + 1,
                             !.successful_checks = IF response_time > 0 THEN @ + 1 ELSE @]
    IN  IF response_time > 0
        THEN [counted EXCEPT !.response_times = Append(@, response_time)]
        ELSE counted

\* Website.add_check_result
AddCheckResult(w, is_success, response_time) ==
    LET counted == [w EXCEPT !.total_checks = @ + 1,
                             !.successful_checks = IF is_success THEN @ + 1 ELSE @]
        appended == Append(counted.response_times, response_time)
    IN  IF response_time > 0
        THEN [counted EXCEPT !.response_times =
                 IF Len(appended) > MaxResponseTimes THEN PopFront(appended) ELSE appended]
        ELSE counted

\* Website.add_status_change
AddStatusChange(w, old_status, new_status, now) ==
    LET event == [timestamp |-> now, old_status |-> old_status, new_status |-> new_status]
        appended == Append(w.status_history, event)
    IN  [w EXCEPT !.status_history =
            IF Len(appended) > MaxStatusHistory THEN PopFront(appended) ELSE appended]

\* Website.calculate_uptime and round(..., 2), in hundredths of a percent:
\* round() rounds to the nearest, a tie to the even neighbour
CalculateUptime(w) ==
    IF w.total_checks = 0 THEN 0
    ELSE LET num == w.successful_checks * 10000
             q == num \div w.total_checks
             r == num % w.total_checks
         IN  IF 2 * r > w.total_checks THEN q + 1
             ELSE IF 2 * r < w.total_checks THEN q
             ELSE IF q % 2 = 0 THEN q ELSE q + 1

\* Website.get_average_response_time
GetAverageResponseTime(w) ==
    IF w.response_times = <<>> THEN 0
    ELSE SumSeq(w.response_times) \div Len(w.response_times)

\* Website.to_dict
ToDict(w) ==
    [url |-> w.url, status |-> w.status, response_time |-> w.response_time,
     last_checked |-> w.last_checked, is_up |-> w.is_up,
     uptime_percentage |-> CalculateUptime(w),
     total_checks |-> w.total_checks,
     avg_response_time |-> GetAverageResponseTime(w),
     status_history |-> LastK(w.status_history, ExposedHistory),
     ssl_expiry_date |-> w.ssl_expiry_date, created_at |-> w.created_at]

----------------------------------------------------------------------------
(* StatusManager: the registry *)

\* StatusManager.get_all_websites, of a dict d over the objects h
GetAllWebsites(d, h) == [i \in 1..Len(d) |-> ToDict(h[d[i].ref])]

\* (mutant) add_website without the membership test
AddAcceptsAlways(d, url) == TRUE

\* the guard of add_website
AddAccepts(d, url) == ~HasUrl(d, url)

\* the guard of remove_website
RemoveAccepts(d, url) == HasUrl(d, url)

\* (mutant) add_website storing a fresh Website before it tests for the url
AddWebsiteResets(d, h, url, now) ==
    [websites |-> DictSet(d, url, Len(h) + 1),
     heap |-> Append(h, NewWebsite(url, now)), ok |-> AddAccepts(d, url)]

\* StatusManager.add_website: the dict and the objects after the call
AddWebsite(d, h, url, now) ==
    IF AddAccepts(d, url)
    THEN [websites |-> DictSet(d, url, Len(h) + 1),
          heap |-> Append(h, NewWebsite(url, now)), ok |-> TRUE]
    ELSE [websites |-> d, heap |-> h, ok |-> FALSE]

\* (mutant) remove_website deleting the oldest entry of the dict
RemoveWebsiteOldest(d, url) ==
    IF RemoveAccepts(d, url)
    THEN [websites |-> Tail(d), ok |-> TRUE]
    ELSE [websites |-> d, ok |-> FALSE]

\* StatusManager.remove_website: the dict after the call
RemoveWebsite(d, url) ==
    IF RemoveAccepts(d, url)
    THEN [websites |-> DictDel(d, url), ok |-> TRUE]
    ELSE [websites |-> d, ok |-> FALSE]

----------------------------------------------------------------------------
(* StatusManager.check_website *)

\* 200 <= response.status_code < 400
IsUp(code) == OkLow <= code /\ code < OkHigh

\* (mutant) the else branch without `website.is_up = False`
CheckResponseKeepsIsUp(w, code, duration, now) ==
    LET timed == [w EXCEPT !.response_time = duration, !.last_checked = now]
    IN  IF OkLow <= code /\ code < OkHigh
        THEN AddCheckResult([timed EXCEPT !.status = StatusOk(code), !.is_up = TRUE],
                            TRUE, duration)
        ELSE AddCheckResult([timed EXCEPT !.status = StatusHttp(code)], FALSE, duration)

\* a response arrived: response_time, last_checked, status, is_up, the counters
CheckResponse(w, code, duration, now) ==
    LET timed == [w EXCEPT !.response_time = duration, !.last_checked = now]
    IN  IF IsUp(code)
        THEN AddCheckResult([timed EXCEPT !.status = StatusOk(code), !.is_up = TRUE],
                            TRUE, duration)
        ELSE AddCheckResult([timed EXCEPT !.status = StatusHttp(code), !.is_up = FALSE],
                            FALSE, duration)

\* (mutant) the except branches without `website.response_time = 0`
CheckFailedKeepsTime(w, exc, now) ==
    AddCheckResult([w EXCEPT !.status = IF exc = "request" THEN StatusDown ELSE StatusError,
                             !.is_up = FALSE, !.last_checked = now],
                   FALSE, w.response_time)

\* except httpx.RequestError ("request") / except Exception ("other")
CheckFailed(w, exc, now) ==
    AddCheckResult([w EXCEPT !.status = IF exc = "request" THEN StatusDown ELSE StatusError,
                             !.is_up = FALSE, !.response_time = 0, !.last_checked = now],
                   FALSE, 0)

\* (mutant) a change is logged only when is_up flips
StatusChangedUpDownOnly(w, old_status, old_is_up) == old_is_up # w.is_up

\* the condition under which a status change is logged
StatusChanged(w, old_status, old_is_up) ==
    old_status # w.status \/ old_is_up # w.is_up

\* "Log status changes", the end of check_website
LogStatusChange(w, old_status, old_is_up, now) ==
    IF StatusChanged(w, old_status, old_is_up)
    THEN AddStatusChange(w, old_status, w.status, now)
    ELSE w

\* the coroutine check_website(site) handed to gather: it reads old_status and
\* old_is_up when it first runs; nothing but a probe of the same object writes
\* these fields, so they are the values the object has when the tick begins
NewTask(h, ref, tick) ==
    [site |-> ref, tick |-> tick, pc |-> "inflight",
     old_status |-> h[ref].status, old_is_up |-> h[ref].is_up]

----------------------------------------------------------------------------
(* StatusManager.notify_listeners *)

NoCause == [op |-> "none", url |-> ""]

Idle ==
    [pc |-> "idle", data |-> <<>>, idx |-> 0, cur |-> NoListener, to_remove |-> <<>>,
     called |-> {}, stayed |-> {}, cause |-> NoCause]

\* data = self.get_all_websites(); to_remove = []; the iterator over self.listeners
\* starts at index 0.  `called` and `stayed` observe the invocation: the listeners
\* it has called so far, and the listeners subscribed since it began.
Begun(cause, d, h, ls) ==
    [pc |-> "sending", data |-> GetAllWebsites(d, h), idx |-> 0, cur |-> NoListener,
     to_remove |-> <<>>, called |-> {}, stayed |-> Range(ls), cause |-> cause]

\* the second loop: for listener in to_remove: if listener in self.listeners: remove
RECURSIVE RemoveEach(_, _)
RemoveEach(ls, rm) ==
    IF rm = <<>> THEN ls ELSE RemoveEach(ListRemove(ls, Head(rm)), Tail(rm))

\* every running invocation sees the listeners that are gone
Unsubscribed(nf, ls) ==
    [m \in Notifiers |-> [nf[m] EXCEPT !.stayed = @ \cap Range(ls)]]

\* whether the list iterator of invocation nr has a next element in ls
HasNext(nr, ls) == nr.idx < Len(ls)

\* `for listener in self.listeners` of invocation n (record nr) resumes: the list
\* iterator yields self.listeners[idx] of the list as it is now, and the call of
\* the listener suspends; or the iterator is exhausted, the failed listeners are
\* removed and the invocation returns.
Resume(n, nr, ls, nf) ==
    IF HasNext(nr, ls)
    THEN [notif |-> [nf EXCEPT ![n] = [nr EXCEPT !.pc = "sending",
                                                !.cur = ls[nr.idx + 1],
                                                !.idx = nr.idx + 1,
                                                !.called = @ \cup {ls[nr.idx + 1]}]],
          listeners |-> ls, done |-> FALSE]
    ELSE [notif |-> [Unsubscribed(nf, RemoveEach(ls, nr.to_remove)) EXCEPT ![n] = Idle],
          listeners |-> RemoveEach(ls, nr.to_remove), done |-> TRUE]

\* await manager.notify_listeners(), up to its first suspension
NotifyListeners(n, cause, d, h, ls, nf) == Resume(n, Begun(cause, d, h, ls), ls, nf)

----------------------------------------------------------------------------
(* The state after construction: manager = StatusManager(), no request yet, *)
(* monitor_loop about to run its first iteration.                           *)

Init ==
    /\ heap = <<>>
    /\ websites = <<>>
    /\ listeners = <<>>
    /\ tasks = {}
    /\ sched = [pc |-> "sleep", tick |-> 0]
    /\ notif = [n \in Notifiers |-> Idle]
    /\ ws = [l \in Listeners |-> "new"]
    /\ conn = [l \in Listeners |-> TRUE]
    /\ nAdds = 0
    /\ nRemoves = 0
    /\ apiNotifies = 0
    /\ schedNotifies = 0
    /\ busyTicks = 0

\* datetime.now(), at the granularity of the scheduler's ticks
Now == sched.tick

\* websites added, websocket connections accepted and ticks so far
Events == Len(heap) + Cardinality({l \in Listeners : ws[l] # "new"}) + sched.tick

----------------------------------------------------------------------------
(* main.py: the REST handlers *)

\* (mutant) the handler notifies with the registry as it was before the mutation
AfterMutationStale(n, cause, d, h, ls, nf) ==
    NotifyListeners(n, cause, websites, heap, ls, nf)

\* `await manager.notify_listeners()` of a handler whose mutation succeeded
AfterMutation(n, cause, d, h, ls, nf) == NotifyListeners(n, cause, d, h, ls, nf)

\* POST /api/websites, accepted: add_website, then notify_listeners up to its
\* first suspension
ApiAddOk(url, n) ==
    LET added == AddWebsite(websites, heap, url, Now)
        started == AfterMutation(n, [op |-> "add", url |-> url],
                                 added.websites, added.heap, listeners, notif)
    IN  /\ Events < MaxEvents
        /\ notif[n].pc = "idle"
        /\ added.ok
        /\ heap' = added.heap
        /\ websites' = added.websites
        /\ notif' = started.notif
        /\ listeners' = started.listeners
        /\ nAdds' = nAdds + 1
        /\ apiNotifies' = apiNotifies + 1
        /\ UNCHANGED <<tasks, sched, ws, conn, nRemoves, schedNotifies, busyTicks>>

\* POST /api/websites, rejected: HTTPException(400), no notification
ApiAddRejected(url) ==
    LET added == AddWebsite(websites, heap, url, Now)
    IN  /\ ~added.ok
        /\ heap' = added.heap
        /\ websites' = added.websites
        /\ UNCHANGED <<listeners, tasks, sched, notif, ws, conn, nAdds, nRemoves,
                       apiNotifies, schedNotifies, busyTicks>>

\* DELETE /api/websites, accepted: remove_website, then notify_listeners up to
\* its first suspension
ApiRemoveOk(url, n) ==
    LET removed == RemoveWebsite(websites, url)
        started == AfterMutation(n, [op |-> "remove", url |-> url],
                                 removed.websites, heap, listeners, notif)
    IN  /\ notif[n].pc = "idle"
        /\ removed.ok
        /\ websites' = removed.websites
        /\ notif' = started.notif
        /\ listeners' = started.listeners
        /\ nRemoves' = nRemoves + 1
        /\ apiNotifies' = apiNotifies + 1
        /\ UNCHANGED <<heap, tasks, sched, ws, conn, nAdds, schedNotifies, busyTicks>>

\* DELETE /api/websites, rejected: HTTPException(404), no notification
ApiRemoveRejected(url) ==
    LET removed == RemoveWebsite(websites, url)
    IN  /\ ~removed.ok
        /\ websites' = removed.websites
        /\ UNCHANGED <<heap, listeners, tasks, sched, notif, ws, conn, nAdds, nRemoves,
                       apiNotifies, schedNotifies, busyTicks>>

----------------------------------------------------------------------------
(* main.py: websocket_endpoint *)

\* StatusManager.add_listener
AddListener(ls, l) == Append(ls, l)

\* (mutant) remove_listener dropping the newest listener
RemoveListenerPops(ls, l) == SubSeq(ls, 1, Len(ls) - 1)

\* list.remove(x) raises ValueError when x is not in the list
RemoveRaises(s, x) == x \notin Range(s)

\* whether remove_listener raises: list.remove runs under `if listener in self.listeners`
RemoveListenerRaises(ls, l) == l \in Range(ls) /\ RemoveRaises(ls, l)

\* StatusManager.remove_listener
RemoveListener(ls, l) == IF l \in Range(ls) THEN ListRemove(ls, l) ELSE ls

\* accept, add_listener(send_updates); from here the handler is suspended in the
\* initial send_json or in receive_text, which touch no state of the manager
WsConnect(l) ==
    /\ ws[l] = "new"
    /\ Events < MaxEvents
    /\ listeners' = AddListener(listeners, l)
    /\ ws' = [ws EXCEPT ![l] = "open"]
    /\ UNCHANGED <<heap, websites, tasks, sched, notif, conn, nAdds, nRemoves,
                   apiNotifies, schedNotifies, busyTicks>>

\* the peer goes away
ClientDisconnect(l) ==
    /\ ws[l] = "open"
    /\ conn[l]
    /\ conn' = [conn EXCEPT ![l] = FALSE]
    /\ UNCHANGED <<heap, websites, listeners, tasks, sched, notif, ws, nAdds, nRemoves,
                   apiNotifies, schedNotifies, busyTicks>>

\* send_json / receive_text raise in the handler: remove_listener(send_updates)
WsExcept(l) ==
    /\ ws[l] = "open"
    /\ ~conn[l]
    /\ listeners' = RemoveListener(listeners, l)
    /\ notif' = Unsubscribed(notif, listeners')
    /\ ws' = [ws EXCEPT ![l] = "closed"]
    /\ UNCHANGED <<heap, websites, tasks, sched, conn, nAdds, nRemoves,
                   apiNotifies, schedNotifies, busyTicks>>

----------------------------------------------------------------------------
(* notify_listeners: a delivery returns or raises *)

\* await listener(data) raises when the websocket of the listener is gone
DeliveryFails(l) == ~conn[l]

\* to_remove after the try/except around the delivery to nr.cur
AfterDelivery(nr) ==
    [nr EXCEPT !.to_remove = IF DeliveryFails(nr.cur) THEN Append(@, nr.cur) ELSE @]

DeliveryDone(n) ==
    LET resumed == Resume(n, AfterDelivery(notif[n]), listeners, notif)
    IN  /\ notif[n].pc = "sending"
        /\ notif' = resumed.notif
        /\ listeners' = resumed.listeners
        /\ sched' = IF n = "sched" /\ resumed.done
                    THEN [sched EXCEPT !.pc = "sleep"] ELSE sched
        /\ UNCHANGED <<heap, websites, tasks, ws, conn, nAdds, nRemoves,
                       apiNotifies, schedNotifies, busyTicks>>

----------------------------------------------------------------------------
(* monitor_loop *)

\* tasks = [self.check_website(site) for site in self.websites.values()]
TickTasks(d, h, tick) == {NewTask(h, d[i].ref, tick) : i \in 1..Len(d)}

\* (mutant) the gather is not awaited
GatherNotAwaited == TRUE

\* await asyncio.gather(*tasks) returns: every coroutine of the tick has returned
GatherReady == \A t \in tasks : t.tick # sched.tick

\* (mutant) the loop body without `if tasks:`
TickAlwaysNotifies(ts) == TRUE

\* `if tasks:`
TickHasTasks(ts) == ts # {}

\* (mutant) the loop body clearing response_time of every site it is about to probe
TickStartClears ==
    /\ sched.pc = "sleep"
    /\ Events < MaxEvents
    /\ heap' = [ref \in 1..Len(heap) |->
                   IF \E i \in 1..Len(websites) : websites[i].ref = ref
                   THEN [heap[ref] EXCEPT !.response_time = 0] ELSE heap[ref]]
    /\ tasks' = tasks \cup TickTasks(websites, heap, sched.tick + 1)
    /\ sched' = [pc |-> IF TickHasTasks(TickTasks(websites, heap, sched.tick + 1))
                        THEN "gather" ELSE "sleep",
                 tick |-> sched.tick + 1]
    /\ busyTicks' = IF websites # <<>> THEN busyTicks + 1 ELSE busyTicks
    /\ UNCHANGED <<websites, listeners, notif, ws, conn, nAdds, nRemoves,
                   apiNotifies, schedNotifies>>

\* asyncio.sleep(5) is over and the loop body runs up to its first suspension:
\* the gather of the probes, or the next sleep when there is nothing to probe
TickStart ==
    /\ sched.pc = "sleep"
    /\ Events < MaxEvents
    /\ tasks' = tasks \cup TickTasks(websites, heap, sched.tick + 1)
    /\ sched' = [pc |-> IF TickHasTasks(TickTasks(websites, heap, sched.tick + 1))
                        THEN "gather" ELSE "sleep",
                 tick |-> sched.tick + 1]
    /\ busyTicks' = IF websites # <<>> THEN busyTicks + 1 ELSE busyTicks
    /\ UNCHANGED <<heap, websites, listeners, notif, ws, conn, nAdds, nRemoves,
                   apiNotifies, schedNotifies>>

\* the gather returns and notify_listeners runs up to its first suspension
GatherDone ==
    LET started == NotifyListeners("sched", [op |-> "tick", url |-> ""],
                                   websites, heap, listeners, notif)
    IN  /\ sched.pc = "gather"
        /\ GatherReady
        /\ notif["sched"].pc = "idle"
        /\ notif' = started.notif
        /\ listeners' = started.listeners
        /\ sched' = [sched EXCEPT !.pc = IF started.done THEN "sleep" ELSE "notify"]
        /\ schedNotifies' = schedNotifies + 1
        /\ UNCHANGED <<heap, websites, tasks, ws, conn, nAdds, nRemoves,
                       apiNotifies, busyTicks>>

----------------------------------------------------------------------------
(* check_website, step by step *)

\* (mutant) the result is recorded in self.websites[website.url] when the url is
\* registered
ProbeResponseByUrl(t, code, duration) ==
    LET url == heap[t.site].url
        ref == IF HasUrl(websites, url) THEN websites[Lookup(websites, url)].ref ELSE t.site
    IN  /\ t.pc = "inflight"
        /\ heap' = [heap EXCEPT ![ref] = CheckResponse(@, code, duration, Now)]
        /\ tasks' = (tasks \ {t}) \cup {[t EXCEPT !.pc = "closing"]}
        /\ UNCHANGED <<websites, listeners, sched, notif, ws, conn, nAdds, nRemoves,
                       apiNotifies, schedNotifies, busyTicks>>

\* client.get returned a response; the result is recorded, then the client is
\* closed (the exit of `async with` suspends)
ProbeResponse(t, code, duration) ==
    /\ t.pc = "inflight"
    /\ heap' = [heap EXCEPT ![t.site] = CheckResponse(@, code, duration, Now)]
    /\ tasks' = (tasks \ {t}) \cup {[t EXCEPT !.pc = "closing"]}
    /\ UNCHANGED <<websites, listeners, sched, notif, ws, conn, nAdds, nRemoves,
                   apiNotifies, schedNotifies, busyTicks>>

\* the client is closed: the status change is logged and the coroutine returns
ProbeFinish(t) ==
    /\ t.pc = "closing"
    /\ heap' = [heap EXCEPT ![t.site] = LogStatusChange(@, t.old_status, t.old_is_up, Now)]
    /\ tasks' = tasks \ {t}
    /\ UNCHANGED <<websites, listeners, sched, notif, ws, conn, nAdds, nRemoves,
                   apiNotifies, schedNotifies, busyTicks>>

\* (mutant) check_website without the `except Exception` branch: an unexpected
\* error leaves the coroutine, the gather re-raises it and monitor_loop ends
ProbeFailedUncaught(t, exc) ==
    /\ t.pc = "inflight"
    /\ heap' = IF exc = "request"
               THEN [heap EXCEPT ![t.site] =
                        LogStatusChange(CheckFailed(@, exc, Now),
                                        t.old_status, t.old_is_up, Now)]
               ELSE heap
    /\ sched' = IF exc = "request" THEN sched ELSE [sched EXCEPT !.pc = "dead"]
    /\ tasks' = tasks \ {t}
    /\ UNCHANGED <<websites, listeners, notif, ws, conn, nAdds, nRemoves,
                   apiNotifies, schedNotifies, busyTicks>>

\* client.get raised (the client is closed while the exception unwinds, before
\* anything is written): the except branch records the failure, the status
\* change is logged and the coroutine returns
ProbeFailed(t, exc) ==
    /\ t.pc = "inflight"
    /\ heap' = [heap EXCEPT ![t.site] =
                   LogStatusChange(CheckFailed(@, exc, Now), t.old_status, t.old_is_up, Now)]
    /\ tasks' = tasks \ {t}
    /\ UNCHANGED <<websites, listeners, sched, notif, ws, conn, nAdds, nRemoves,
                   apiNotifies, schedNotifies, busyTicks>>

----------------------------------------------------------------------------

Next ==
    \/ \E url \in Urls, n \in ApiSlots : ApiAddOk(url, n)
    \/ \E url \in Urls : ApiAddRejected(url)
    \/ \E url \in Urls, n \in ApiSlots : ApiRemoveOk(url, n)
    \/ \E url \in Urls : ApiRemoveRejected(url)
    \/ \E l \in Listeners : WsConnect(l)
    \/ \E l \in Listeners : ClientDisconnect(l)
    \/ \E l \in Listeners : WsExcept(l)
    \/ \E n \in Notifiers : DeliveryDone(n)
    \/ TickStart
    \/ GatherDone
    \/ \E t \in tasks, code \in Codes, duration \in Durations : ProbeResponse(t, code, duration)
    \/ \E t \in tasks : ProbeFinish(t)
    \/ \E t \in tasks, exc \in {"request", "other"} : ProbeFailed(t, exc)

Spec == Init /\ [][Next]_vars

\* a step of some probe in flight
ProbeStep ==
    \E t \in tasks :
        \/ \E code \in Codes, duration \in Durations : ProbeResponse(t, code, duration)
        \/ ProbeFinish(t)
        \/ \E exc \in {"request", "other"} : ProbeFailed(t, exc)

\* The event loop runs every coroutine that is ready: the sleep of monitor_loop
\* ends, a probe ends with a response or an error (at the latest by its timeout)
\* and the gather then returns.  A delivery of the scheduler's notify_all is
\* taken to return or raise as well.
FairSpec ==
    /\ Spec
    /\ WF_vars(TickStart)
    /\ WF_vars(ProbeStep)
    /\ WF_vars(GatherDone)
    /\ WF_vars(DeliveryDone("sched"))

----------------------------------------------------------------------------
(* The program after it has run for a long time *)

\* a Website w that has been probed i - 1 times, after the probes i, ..., n, the
\* last of them one tick before the tick counter of the model starts: probe i
\* answers after i ms, the first k answers alternate between 200 and 400, the
\* later ones repeat answer k
RECURSIVE Probed(_, _, _)
Probed(w, k, n) ==
    IF w.total_checks >= n THEN w
    ELSE LET i == w.total_checks + 1
             j == IF i <= k THEN i ELSE k
             code == IF j % 2 = 1 THEN 200 ELSE 400
             now == i - n - 1
         IN  Probed(LogStatusChange(CheckResponse(w, code, i, now), w.status, w.is_up, now),
                    k, n)

\* status changes and probes of the long-running target: around the length of
\* the exposed history and around the two capacities
LongChanges == {ExposedHistory - 1, ExposedHistory, MaxStatusHistory - 1, MaxStatusHistory}
LongProbes == {MaxResponseTimes - 1, MaxResponseTimes}

\* one url was registered long ago and has been probed in every tick since; the
\* scheduler sleeps, nobody listens; the counters of the model start here
LongRunInit ==
    /\ \E k \in LongChanges, n \in LongProbes : heap = <<Probed(NewWebsite("a", 0 - n - 1), k, n)>>
    /\ websites = <<[url |-> "a", ref |-> 1]>>
    /\ listeners = <<>>
    /\ tasks = {}
    /\ sched = [pc |-> "sleep", tick |-> 0]
    /\ notif = [n \in Notifiers |-> Idle]
    /\ ws = [l \in Listeners |-> "new"]
    /\ conn = [l \in Listeners |-> TRUE]
    /\ nAdds = 1
    /\ nRemoves = 0
    /\ apiNotifies = 1
    /\ schedNotifies = 0
    /\ busyTicks = 0

LongRunSpec == LongRunInit /\ [][Next]_vars

----------------------------------------------------------------------------
(* What an observer sees *)

\* registry.list() in the current state
List == GetAllWebsites(websites, heap)

\* the urls of a snapshot
SnapshotUrls(data) == {data[i].url : i \in 1..Len(data)}

\* the references of the registered websites
Registered == {websites[i].ref : i \in 1..Len(websites)}

\* a status of the form "<code> OK" with the code of an up response
UpStatus(st) == st.kind = "OK" /\ 200 <= st.code /\ st.code < 400

\* the probe of object ref that is waiting for its response
Awaiting(ref) == {t \in tasks : t.site = ref /\ t.pc = "inflight"}

\* the probes of object ref that have not returned
Running(ref) == {t \in tasks : t.site = ref}

----------------------------------------------------------------------------
(* C1 *)

\* C1: whatever add and remove calls and scheduler ticks have happened, list()
\* holds no two entries with the same url, and its length is the number of adds
\* that were accepted minus the number of removes that were accepted.
C1_UniqueAndCounted ==
    /\ \A i, j \in 1..Len(List) : List[i].url = List[j].url => i = j
    /\ Len(List) = nAdds - nRemoves

\* a url was added, removed and added again, and the scheduler has ticked
C1_Witness ==
    /\ nAdds = 2
    /\ nRemoves = 1
    /\ Len(List) = 1
    /\ sched.tick >= 1

----------------------------------------------------------------------------
(* C2 *)

\* C2: in the step in which a probe of a target records its outcome, the
\* target's total_checks grows by exactly 1 and its successful_checks grows by 1
\* if the outcome is an up status ("<code> OK", code in [200,400)) and by 0
\* otherwise; no other step changes either counter.
C2_CountersPerProbe ==
    [][\A ref \in 1..Len(heap) :
          LET recorded == \E t \in Awaiting(ref) : t \notin tasks'
          IN  /\ heap'[ref].total_checks =
                    heap[ref].total_checks + (IF recorded THEN 1 ELSE 0)
              /\ heap'[ref].successful_checks =
                    heap[ref].successful_checks +
                    (IF recorded /\ UpStatus(heap'[ref].status) THEN 1 ELSE 0)]_vars

\* one target has been up, then answered outside [200,400), another has failed at
\* the transport level and then unexpectedly
C2_Witness ==
    \E r1, r2 \in 1..Len(heap) :
        /\ heap[r1].total_checks = 2
        /\ heap[r1].successful_checks = 1
        /\ heap[r1].status = StatusHttp(400)
        /\ heap[r2].total_checks = 2
        /\ heap[r2].successful_checks = 0
        /\ heap[r2].status = StatusError
        /\ heap[r2].status_history[1].new_status = StatusDown

----------------------------------------------------------------------------
(* C3 *)

\* the entry of a snapshot shows is_up together with the status it belongs to
Coherent(e) ==
    /\ e.is_up <=> UpStatus(e.status)
    /\ e.status.kind \in {"UNKNOWN", "DOWN", "ERROR", "HTTP"} => ~e.is_up
    /\ e.status.kind \in {"OK", "HTTP"} => (e.status.kind = "OK" <=> UpStatus(e.status))

\* C3: in every snapshot, list() taken in any state (probes in flight or not) and
\* the snapshots the notifier is delivering, is_up is true exactly when the
\* status is "<code> OK" with code in [200,400), and false for UNKNOWN, DOWN,
\* ERROR and "HTTP <code>".
C3_StatusAndIsUpTogether ==
    /\ \A i \in 1..Len(List) : Coherent(List[i])
    /\ \A n \in Notifiers : \A i \in 1..Len(notif[n].data) : Coherent(notif[n].data[i])

\* list() taken while a probe is in flight shows one target up and one down
C3_Witness ==
    /\ \E t \in tasks : t.site \in Registered
    /\ \E i, j \in 1..Len(List) :
          /\ List[i].is_up /\ List[i].status = StatusOk(200)
          /\ ~List[j].is_up /\ List[j].status = StatusHttp(400)

----------------------------------------------------------------------------
(* C4 *)

\* C4: a probe appends one event to status_history if and only if the status or
\* is_up it leaves differs from the value before the probe, the event holding the
\* status before and the status after; otherwise, and in every step that is not
\* the return of a probe of that target, status_history is unchanged.  While a
\* probe waits for its response, old_status and old_is_up are the target's
\* current values.
C4_HistoryIffChanged ==
    /\ [](\A t \in tasks : t.pc = "inflight" =>
             /\ t.old_status = heap[t.site].status
             /\ t.old_is_up = heap[t.site].is_up)
    /\ [][\A ref \in 1..Len(heap) :
            LET before == heap[ref].status_history
                after == heap'[ref].status_history
                returned == {t \in Running(ref) : Running(ref)' = {}}
            IN  IF \E t \in returned :
                      \/ t.old_status # heap'[ref].status
                      \/ t.old_is_up # heap'[ref].is_up
                THEN /\ Len(after) = Len(before) + 1
                     /\ SubSeq(after, 1, Len(before)) = before
                     /\ \A t \in returned :
                           /\ after[Len(after)].old_status = t.old_status
                           /\ after[Len(after)].new_status = heap'[ref].status
                ELSE after = before]_vars

\* a target answered 200 and then 400: one event "200 OK" -> "HTTP 400" follows
\* the first one, and a later probe of an unchanged target added nothing
C4_Witness ==
    \E r1, r2 \in 1..Len(heap) :
        /\ Len(heap[r1].status_history) = 2
        /\ heap[r1].status_history[2].old_status = StatusOk(200)
        /\ heap[r1].status_history[2].new_status = StatusHttp(400)
        /\ heap[r2].total_checks = 2
        /\ Len(heap[r2].status_history) = 1

----------------------------------------------------------------------------
(* C5, C6 *)

\* the listeners whose delivery has failed in invocation nr, the delivery that
\* is returning included
FailedIn(nr) ==
    Range(nr.to_remove) \cup (IF nr.cur \in Listeners /\ ~conn[nr.cur] THEN {nr.cur} ELSE {})

\* invocation n of notify_listeners returns in this step
Returns(n) == notif[n].pc = "sending" /\ notif'[n].pc = "idle"

\* C5: when an invocation of notify_all in which a delivery failed returns, every
\* other listener that was subscribed throughout has been called with the
\* snapshot, the listeners whose delivery failed are no longer subscribed, and
\* the listeners whose delivery succeeded are still subscribed.
C5_FailureIsolated ==
    [][\A n \in Notifiers :
          (Returns(n) /\ FailedIn(notif[n]) # {}) =>
              /\ notif[n].stayed \ FailedIn(notif[n]) \subseteq notif[n].called
              /\ FailedIn(notif[n]) \cap Range(listeners') = {}
              /\ ((notif[n].called \ FailedIn(notif[n])) \cap Range(listeners))
                     \subseteq Range(listeners')]_vars

\* C6: when an invocation of notify_all returns, every listener that was
\* subscribed from its start to its return has been called with the snapshot.
C6_NoListenerSkipped ==
    [][\A n \in Notifiers : Returns(n) => notif[n].stayed \subseteq notif[n].called]_vars

----------------------------------------------------------------------------
(* C7 *)

\* C7: probes are in flight only while the scheduler waits in the gather of the
\* current tick, so its notify_all runs only when every probe of the tick has
\* returned and a tick begins only when the notification of the one before has
\* returned; no two probes in flight are probes of the same url.
C7_BarrierAndNoOverlap ==
    /\ \A t \in tasks : t.tick = sched.tick /\ sched.pc = "gather"
    /\ notif["sched"].pc = "sending" <=> sched.pc = "notify"
    /\ \A t1, t2 \in tasks : heap[t1.site].url = heap[t2.site].url => t1 = t2

\* the notification of the second tick is being delivered, after a target was
\* probed in both ticks
C7_Witness ==
    /\ sched.tick = 2
    /\ sched.pc = "notify"
    /\ \E ref \in Registered : heap[ref].total_checks = 2

----------------------------------------------------------------------------
(* C8 *)

\* C8 as stated: every tick that has ended has had its one notify_all of the
\* scheduler, whatever was registered when it began.
C8_EveryTickNotifies ==
    sched.pc = "sleep" => schedNotifies = sched.tick

\* C8, amended: the scheduler has called notify_all exactly once for every
\* ended tick that began with at least one registered target, and not at all for
\* a tick that began with none; the snapshot it delivers holds, for every target,
\* the result of this tick's probe or, for a target added during the tick, no
\* result yet.
C8_BusyTicksNotifyOnce ==
    /\ schedNotifies = busyTicks - (IF sched.pc = "gather" THEN 1 ELSE 0)
    /\ busyTicks <= sched.tick
    /\ notif["sched"].pc = "sending" =>
          \A i \in 1..Len(notif["sched"].data) :
              LET e == notif["sched"].data[i]
              IN  IF e.total_checks = 0
                  THEN e.last_checked = None
                  ELSE e.last_checked = sched.tick

\* a tick with nothing registered was followed by a tick with a target, whose
\* notification is being delivered
C8_Witness ==
    /\ sched.tick = 2
    /\ busyTicks = 1
    /\ schedNotifies = 1
    /\ notif["sched"].pc = "sending"
    /\ Len(notif["sched"].data) = 1

----------------------------------------------------------------------------
(* C9 *)

\* C9: the API layer has started notify_all once for each accepted add and
\* remove and for nothing else; it starts it in the very step of the mutation
\* (so before any later tick), with the snapshot of the registry after the
\* mutation: the added url in it, the removed url not; a step that leaves the
\* registered urls as they are (a rejected add or remove among them) starts none.
C9_MutationNotifiesOnce ==
    /\ [](apiNotifies = nAdds + nRemoves)
    /\ [](\A n \in ApiSlots : notif[n].pc = "sending" =>
             /\ notif[n].cause.op = "add" =>
                    notif[n].cause.url \in SnapshotUrls(notif[n].data)
             /\ notif[n].cause.op = "remove" =>
                    notif[n].cause.url \notin SnapshotUrls(notif[n].data))
    /\ [][IF SnapshotUrls(List) = SnapshotUrls(List')
          THEN /\ apiNotifies' = apiNotifies
               /\ \A n \in ApiSlots : notif[n].pc = "idle" => notif'[n].pc = "idle"
          ELSE /\ apiNotifies' = apiNotifies + 1
               /\ sched' = sched
               /\ listeners # <<>> =>
                     \E n \in ApiSlots :
                         /\ notif[n].pc = "idle"
                         /\ notif'[n].pc = "sending"
                         /\ notif'[n].data = List']_vars

\* a listener is being sent the snapshot of a remove: the other url is in it
C9_Witness ==
    \E n \in ApiSlots :
        /\ notif[n].pc = "sending"
        /\ notif[n].cause.op = "remove"
        /\ Len(notif[n].data) = 1
        /\ notif[n].cause.url \notin SnapshotUrls(notif[n].data)

----------------------------------------------------------------------------
(* C10 *)

\* the probe of object ref has failed in the tick the scheduler is in
FailedNow(ref) ==
    /\ ref <= Len(heap)
    /\ ref \in Registered
    /\ Running(ref) = {}
    /\ heap[ref].status \in {StatusDown, StatusError}
    /\ heap[ref].last_checked = sched.tick

\* the step is the failure (transport or unexpected) of probe t
Fails(t) ==
    /\ t.pc = "inflight"
    /\ t \notin tasks'
    /\ heap'[t.site].status \in {StatusDown, StatusError}
    /\ heap'[t.site].total_checks = heap[t.site].total_checks + 1

\* monitor_loop is at one of its three suspension points and can go on from it
LoopAlive ==
    /\ sched.pc \in {"sleep", "gather", "notify"}
    /\ (sched.pc = "sleep" /\ Events < MaxEvents) => ENABLED TickStart
    /\ sched.pc = "gather" => ENABLED ProbeStep \/ ENABLED GatherDone
    /\ sched.pc = "notify" => ENABLED DeliveryDone("sched")

----------------------------------------------------------------------------
(* C11 *)

\* The event loop as in FairSpec, without the assumption on the listeners:
\* `await listener(data)` returns when the send of the listener returns, and
\* notify_listeners sets no bound on it.
LoopSpec ==
    /\ Spec
    /\ WF_vars(TickStart)
    /\ WF_vars(ProbeStep)
    /\ WF_vars(GatherDone)

\* C11: however long single deliveries take, every invocation of notify_all
\* returns, every listener subscribed throughout an invocation is called in it
\* although the delivery to another does not return, every tick ends, and the
\* next tick starts (as long as the timer fires).
C11_NothingBlocksForever ==
    /\ \A n \in Notifiers : [](notif[n].pc = "sending" => <>(notif[n].pc = "idle"))
    /\ \A n \in Notifiers :
          [](notif[n].pc = "sending" =>
                <>(notif[n].pc = "idle" \/ notif[n].stayed \subseteq notif[n].called))
    /\ [](sched.pc \in {"gather", "notify"} => <>(sched.pc = "sleep"))
    /\ \A k \in 0..MaxEvents :
          [](sched.tick = k => <>(sched.tick > k \/ Events >= MaxEvents))

----------------------------------------------------------------------------
(* C12 *)

\* C12: for a probe waiting for its response, a transport-level failure leaves
\* its target with status DOWN, an unexpected failure with status ERROR, both
\* with is_up false, response_time 0, total_checks one higher, successful_checks
\* and response_times as before; the step in which a probe fails does exactly
\* that to the target; and in every state a target whose status is DOWN or ERROR
\* has response_time 0.
C12_FailureRecorded ==
    /\ [](\A t \in tasks : t.pc = "inflight" =>
             \A exc \in {"request", "other"} :
                 LET w == heap[t.site]
                     f == CheckFailed(w, exc, Now)
                 IN  /\ f.status = (IF exc = "request" THEN StatusDown ELSE StatusError)
                     /\ f.is_up = FALSE
                     /\ f.response_time = 0
                     /\ f.total_checks = w.total_checks + 1
                     /\ f.successful_checks = w.successful_checks
                     /\ f.response_times = w.response_times)
    /\ [][\A t \in tasks : Fails(t) =>
             /\ heap'[t.site].is_up = FALSE
             /\ heap'[t.site].response_time = 0
             /\ heap'[t.site].successful_checks = heap[t.site].successful_checks
             /\ heap'[t.site].response_times = heap[t.site].response_times]_vars
    /\ [](\A ref \in 1..Len(heap) :
             heap[ref].status \in {StatusDown, StatusError} => heap[ref].response_time = 0)

\* a target that had answered (one sample of 50 ms) has then failed at the
\* transport level, and another target has failed unexpectedly
C12_Witness ==
    \E r1, r2 \in 1..Len(heap) :
        /\ heap[r1].status = StatusDown
        /\ heap[r1].total_checks = 2
        /\ heap[r1].response_times = <<50>>
        /\ heap[r1].response_time = 0
        /\ heap[r2].status = StatusError
        /\ heap[r2].total_checks = 1
        /\ heap[r2].response_times = <<>>

----------------------------------------------------------------------------
(* C13 *)

\* C13: in every reachable state, add(url) for a url that is registered returns
\* false and leaves the registry (the same urls, bound to the same targets, in
\* the same order) and every target (status, is_up, counters, response_times,
\* status_history, created_at) as they are.
C13_DuplicateAddIsNoOp ==
    \A url \in Urls :
        HasUrl(websites, url) =>
            LET added == AddWebsite(websites, heap, url, Now)
            IN  /\ added.ok = FALSE
                /\ added.websites = websites
                /\ added.heap = heap

\* a registered target has been probed and has a status change in its history,
\* later than its creation, and an add of its url is rejected in this state
C13_Witness ==
    \E i \in 1..Len(websites) :
        /\ heap[websites[i].ref].total_checks >= 1
        /\ heap[websites[i].ref].status_history # <<>>
        /\ heap[websites[i].ref].created_at < Now
        /\ ENABLED ApiAddRejected(websites[i].url)

----------------------------------------------------------------------------
(* C14 *)

\* C14: in every reachable state, remove(url) for a url that is not registered
\* returns false and leaves the registry as it is; for a registered url it
\* returns true and the registry is the one before without the entry of url, the
\* other entries in their order; and a step that removes leaves every target
\* object as it is.
C14_RemoveExactlyThat ==
    /\ [](\A url \in Urls :
             LET removed == RemoveWebsite(websites, url)
             IN  IF HasUrl(websites, url)
                 THEN /\ removed.ok = TRUE
                      /\ Len(removed.websites) = Len(websites) - 1
                      /\ ~HasUrl(removed.websites, url)
                      /\ removed.websites =
                            SelectSeq(websites, LAMBDA e : e.url # url)
                 ELSE /\ removed.ok = FALSE
                      /\ removed.websites = websites)
    /\ [][nRemoves' # nRemoves =>
             /\ heap' = heap
             /\ \E url \in Urls :
                   /\ HasUrl(websites, url)
                   /\ websites' = SelectSeq(websites, LAMBDA e : e.url # url)]_vars

\* of two registered targets the older one was removed: the other one is still
\* listed with its result, and a further remove of the removed url is rejected
C14_Witness ==
    /\ nRemoves = 1
    /\ Len(websites) = 1
    /\ websites[1].ref = 2
    /\ heap[2].total_checks >= 1
    /\ ENABLED ApiRemoveRejected(heap[1].url)

----------------------------------------------------------------------------
(* C15 *)

\* C15: response_times of every target holds at most 100 entries; the step in
\* which a probe records its outcome appends the recorded response_time when it
\* is > 0, whatever the status (after dropping the oldest entry when 100 are
\* held, the others keeping their order), and leaves response_times as it is
\* when it is 0; no other step changes response_times; a response that took 0 ms
\* adds nothing, whatever its code.
C15_SamplesCapped ==
    /\ [](\A ref \in 1..Len(heap) : Len(heap[ref].response_times) <= 100)
    /\ [][\A ref \in 1..Len(heap) :
            LET before == heap[ref].response_times
                after == heap'[ref].response_times
                recorded == \E t \in Awaiting(ref) : t \notin tasks'
            IN  IF recorded /\ heap'[ref].response_time > 0
                THEN after = (IF Len(before) = 100 THEN Tail(before) ELSE before)
                                \o <<heap'[ref].response_time>>
                ELSE after = before]_vars
    /\ [](\A t \in tasks : t.pc = "inflight" =>
             \A code \in Codes :
                 CheckResponse(heap[t.site], code, 0, Now).response_times
                     = heap[t.site].response_times)

\* a target that held the samples 1, ..., 100 of its first hundred probes has
\* answered "HTTP 400" after 50 ms: sample 1 is gone, 2, ..., 100 and 50 are held
C15_Witness ==
    \E ref \in 1..Len(heap) :
        /\ Len(heap[ref].response_times) = 100
        /\ heap[ref].total_checks = 101
        /\ heap[ref].status = StatusHttp(400)
        /\ heap[ref].response_times[1] = 2
        /\ heap[ref].response_times[99] = 100
        /\ heap[ref].response_times[100] = 50

----------------------------------------------------------------------------
(* C16 *)

\* C16: status_history of every target holds at most 50 events; a step that
\* changes it appends one event, after dropping the oldest one when 50 are held,
\* the others keeping their order; and the status_history of an entry of list()
\* is the last 10 stored events of the target in their order, all of them when
\* at most 10 are stored.
C16_HistoryCappedAndExposed ==
    /\ [](\A ref \in 1..Len(heap) : Len(heap[ref].status_history) <= 50)
    /\ [][\A ref \in 1..Len(heap) :
            LET before == heap[ref].status_history
                after == heap'[ref].status_history
            IN  after # before =>
                    /\ after # <<>>
                    /\ after = (IF Len(before) = 50 THEN Tail(before) ELSE before)
                                   \o <<after[Len(after)]>>]_vars
    /\ [](\A i \in 1..Len(List) :
             LET stored == heap[websites[i].ref].status_history
                 shown == List[i].status_history
             IN  /\ Len(shown) = (IF Len(stored) < 10 THEN Len(stored) ELSE 10)
                 /\ \A j \in 1..Len(shown) :
                       shown[j] = stored[Len(stored) - Len(shown) + j])

\* a target that held 50 events has changed its status once more: its first
\* event, "UNKNOWN" -> "200 OK", is gone, the new event is the last of the 50
\* stored ones and the last of the 10 that list() shows
C16_Witness ==
    \E i \in 1..Len(List) :
        LET stored == heap[websites[i].ref].status_history
        IN  /\ Len(stored) = 50
            /\ stored[1].old_status = StatusOk(200)
            /\ stored[50].timestamp = Now
            /\ Now >= 1
            /\ Len(List[i].status_history) = 10
            /\ List[i].status_history[10] = stored[50]
            /\ List[i].status_history[1] = stored[41]

----------------------------------------------------------------------------
(* C17 *)

\* C17: a step changes a field of a target (status, is_up, response_time,
\* last_checked, the counters, response_times, status_history) only if it is the
\* step of a probe of that very target in which the probe records its result or
\* returns; so a step that changes the registry (add, remove), the listeners
\* (subscribe, unsubscribe) or a notify_all, or that begins a tick, leaves every
\* existing target as it is, and so does a step of a probe of another target.
C17_OnlyOwnProbeWrites ==
    [][/\ Len(heap') >= Len(heap)
       /\ \A ref \in 1..Len(heap) :
             heap'[ref] # heap[ref] =>
                 /\ \E t \in tasks : t.site = ref /\ t \notin tasks'
                 /\ \A t \in tasks : t.site # ref => t \in tasks'
                 /\ websites' = websites
                 /\ listeners' = listeners
                 /\ notif' = notif
                 /\ sched' = sched]_vars

\* while a listener is subscribed, one of two registered targets has its result
\* and the other, whose probe is still waiting, is as it was created
C17_Witness ==
    \E r1, r2 \in Registered :
        /\ heap[r1].total_checks = 1
        /\ Running(r1) = {}
        /\ heap[r2] = NewWebsite(heap[r2].url, heap[r2].created_at)
        /\ Awaiting(r2) # {}
        /\ listeners # <<>>

----------------------------------------------------------------------------
(* C18 *)

\* C18: in every reachable state and for every listener, unsubscribe raises no
\* error; after it the listener is not subscribed and the other listeners are
\* subscribed as before, in their order; for a listener that is not subscribed
\* (never, no longer, or removed by notify_all after a failed delivery) it
\* changes nothing; a second unsubscribe changes nothing; and the step in which
\* a websocket handler unsubscribes its listener does just that to the list.
C18_UnsubscribeIdempotent ==
    /\ [](\A l \in Listeners :
             LET once == RemoveListener(listeners, l)
             IN  /\ ~RemoveListenerRaises(listeners, l)
                 /\ l \notin Range(once)
                 /\ once = SelectSeq(listeners, LAMBDA m : m # l)
                 /\ l \notin Range(listeners) => once = listeners
                 /\ ~RemoveListenerRaises(once, l)
                 /\ RemoveListener(once, l) = once)
    /\ [][\A l \in Listeners :
             (ws[l] = "open" /\ ws'[l] = "closed") =>
                 listeners' = SelectSeq(listeners, LAMBDA m : m # l)]_vars

\* notify_all has removed a listener whose delivery failed; its websocket
\* handler has not run its except branch yet, which is about to unsubscribe it
\* once more, while another listener is subscribed
C18_Witness ==
    \E l, m \in Listeners :
        /\ ws[l] = "open"
        /\ ~conn[l]
        /\ l \notin Range(listeners)
        /\ m \in Range(listeners)
        /\ ENABLED WsExcept(l)

----------------------------------------------------------------------------
(* C19 *)

\* the object is as add_website constructed it
Pristine(w) ==
    /\ w.status = StatusUnknown
    /\ w.last_checked = None
    /\ w.is_up = FALSE
    /\ w.total_checks = 0
    /\ w.successful_checks = 0
    /\ w.response_times = <<>>
    /\ w.status_history = <<>>

\* C19: a step of a probe whose target is no longer registered (removed, or
\* removed and added again under the same url, while the probe was in flight)
\* leaves the registry and every registered target as they are; a url comes
\* into list() only by an accepted add and leaves it only by an accepted
\* remove; and a target that no tick has probed since it was added has status
\* UNKNOWN, last_checked null and zero counters.
C19_LateProbeIsHarmless ==
    /\ [][\A t \in tasks :
             (t \notin tasks' /\ t.site \notin Registered) =>
                 /\ websites' = websites
                 /\ List' = List
                 /\ \A ref \in Registered : heap'[ref] = heap[ref]]_vars
    /\ [][/\ SnapshotUrls(List') \ SnapshotUrls(List) # {} => nAdds' = nAdds + 1
          /\ SnapshotUrls(List) \ SnapshotUrls(List') # {} => nRemoves' = nRemoves + 1
          /\ Registered' # Registered => (nAdds' # nAdds \/ nRemoves' # nRemoves)]_vars
    /\ [](\A ref \in Registered :
             heap[ref].created_at >= sched.tick => Pristine(heap[ref]))

\* a url was removed and added again while its probe was waiting; the probe has
\* recorded its result in the object it was started with, the url is listed
\* once, with the new object, which is as it was constructed
C19_Witness ==
    \E old \in 1..Len(heap), new \in Registered :
        /\ old \notin Registered
        /\ heap[old].url = heap[new].url
        /\ heap[old].created_at < sched.tick
        /\ heap[new].created_at = sched.tick
        /\ heap[old].last_checked = sched.tick
        /\ heap[old].total_checks = 1
        /\ Running(old) = {}
        /\ Pristine(heap[new])
        /\ Len(List) = 1
        /\ List[1].status = StatusUnknown

----------------------------------------------------------------------------
(* C20 *)

\* every event records a change, and starts from the status the event stored
\* before it ended in
Chained(h) ==
    /\ \A j \in 1..Len(h) : h[j].old_status # h[j].new_status
    /\ \A j \in 2..Len(h) : h[j].old_status = h[j - 1].new_status

\* the history ends in the status the target shows; a target without history is
\* as it was constructed
UpToDate(w) ==
    IF w.status_history = <<>>
    THEN w.status = StatusUnknown /\ w.total_checks = 0
    ELSE w.status_history[Len(w.status_history)].new_status = w.status

\* C20: in every state, probes in flight or not, list() shows of every
\* registered target a stored status_history that is a chain of changes and
\* that ends in the status shown (an empty one going with status UNKNOWN and
\* total_checks 0).
C20_HistoryFollowsStatus ==
    \A i \in 1..Len(List) :
        LET w == heap[websites[i].ref]
        IN  /\ List[i].status = w.status
            /\ List[i].total_checks = w.total_checks
            /\ Chained(w.status_history)
            /\ UpToDate(w)

====
